---- MODULE Spec2Model ----
(***************************************************************************)
(* Telemetry backend of the Keccak teaching app (src/server.js, the        *)
(* Redis-backed server): event ingestion, day-bucketed aggregation, the    *)
(* admin gate of the statistics endpoint, the store-health tracker and the *)
(* shutdown on SIGINT and SIGTERM.                                         *)
(*                                                                         *)
(* The store client (ioredis) and the store are the environment: the store *)
(* is reachable or not, the client is ready or reconnecting, a command     *)
(* sent on the connection is answered in order with a result or an error   *)
(* reply, or fails with the connection.                                    *)
(*                                                                         *)
(* JavaScript strings that the code inspects character by character        *)
(* or tests for emptiness (event names, session ids, tokens, the `days`    *)
(* parameter, ISO dates) are sequences of one-character strings; error     *)
(* codes and error messages, which the code only copies, are TLA+ strings. *)
(***************************************************************************)
EXTENDS Integers, Sequences, FiniteSets, TLC

(***************************************************************************)
(* Bounds of the model.                                                    *)
(***************************************************************************)
\* number of HTTP requests the server receives in one behaviour
MaxReq == 2
\* number of UTC midnights that pass in one behaviour
MaxTicks == 1
\* longest `days` query string drawn in SpecDays
MaxDaysLen == 3
\* number of shutdown signals (SIGINT, SIGTERM) delivered in one behaviour
MaxSignals == 2

(***************************************************************************)
(* JavaScript values.                                                      *)
(***************************************************************************)
null == [t |-> "null"]
undefined == [t |-> "undefined"]
NaN == [t |-> "NaN"]
Str(s) == [t |-> "string", v |-> s]
Num(n) == [t |-> "number", n |-> n]
Bool(b) == [t |-> "boolean", b |-> b]

IsString(x) == x.t = "string"

\* x || y on strings, null and undefined: the empty string is falsy
Truthy(x) ==
    CASE x.t = "string" -> x.v # <<>>
      [] x.t = "number" -> x.n # 0
      [] x.t = "boolean" -> x.b
      [] x.t \in {"null", "undefined", "NaN"} -> FALSE
      [] OTHER -> TRUE

Or(x, y) == IF Truthy(x) THEN x ELSE y

(***************************************************************************)
(* Character classes of the two validators' regular expressions.           *)
(***************************************************************************)
Lower == {"a","b","c","d","e","f","g","h","i","j","k","l","m",
          "n","o","p","q","r","s","t","u","v","w","x","y","z"}
Upper == {"A","B","C","D","E","F","G","H","I","J","K","L","M",
          "N","O","P","Q","R","S","T","U","V","W","X","Y","Z"}
Digit == {"0","1","2","3","4","5","6","7","8","9"}

EventNameChars == Lower \cup Upper \cup Digit \cup {"_", ":", "-"}
SessionIdChars == Lower \cup Upper \cup Digit \cup {"-"}

\* /^[a-z0-9_:-]{1,64}$/i.test(eventName), after the typeof test
isValidEventName(eventName) ==
    /\ IsString(eventName)
    /\ Len(eventName.v) >= 1
    /\ Len(eventName.v) <= 64
    /\ \A i \in 1..Len(eventName.v) : eventName.v[i] \in EventNameChars

\* /^[a-z0-9-]{6,80}$/i.test(sessionId), after the typeof test
isValidSessionId(sessionId) ==
    /\ IsString(sessionId)
    /\ Len(sessionId.v) >= 6
    /\ Len(sessionId.v) <= 80
    /\ \A i \in 1..Len(sessionId.v) : sessionId.v[i] \in SessionIdChars

(***************************************************************************)
(* Number.parseInt(s, 10) and clampDays.                                   *)
(***************************************************************************)
WhiteSpace == {" "}

DigitValue(c) ==
    CASE c = "0" -> 0 [] c = "1" -> 1 [] c = "2" -> 2 [] c = "3" -> 3
      [] c = "4" -> 4 [] c = "5" -> 5 [] c = "6" -> 6 [] c = "7" -> 7
      [] c = "8" -> 8 [] c = "9" -> 9

RECURSIVE TrimStart(_)
TrimStart(s) ==
    IF s # <<>> /\ Head(s) \in WhiteSpace THEN TrimStart(Tail(s)) ELSE s

\* the value of the longest prefix of decimal digits of s, after acc
RECURSIVE DigitsValue(_, _)
DigitsValue(s, acc) ==
    IF s # <<>> /\ Head(s) \in Digit
    THEN DigitsValue(Tail(s), 10 * acc + DigitValue(Head(s)))
    ELSE acc

parseInt(s) ==
    LET t == TrimStart(s)
        neg == t # <<>> /\ Head(t) = "-"
        u == IF t # <<>> /\ Head(t) \in {"-", "+"} THEN Tail(t) ELSE t
    IN  IF u = <<>> \/ Head(u) \notin Digit
        THEN NaN
        ELSE Num(IF neg THEN 0 - DigitsValue(u, 0) ELSE DigitsValue(u, 0))

Min(a, b) == IF a < b THEN a ELSE b
Max(a, b) == IF a > b THEN a ELSE b

\* the mutant of clampDays that forgets the lower clamp
clampDaysNoFloor(days) ==
    IF days.t # "number" THEN 7 ELSE Min(30, days.n)

\* Number.isFinite is false of NaN alone here: parseInt yields an integer or NaN,
\* and Math.floor leaves an integer as it is
clampDays(days) ==
    IF days.t # "number" THEN 7 ELSE Min(30, Max(1, days.n))

\* clampDays(Number.parseInt(url.searchParams.get("days") || "7", 10))
daysOfQuery(param) == clampDays(parseInt(Or(param, Str(<<"7">>)).v))

(***************************************************************************)
(* Dates: new Date() is the UTC calendar day <<year, month, day>> of the   *)
(* server's clock; the time of day is left out, a midnight is one step.    *)
(***************************************************************************)
IsLeap(y) == (y % 4 = 0 /\ y % 100 # 0) \/ y % 400 = 0

DaysInMonth(y, m) ==
    CASE m \in {1, 3, 5, 7, 8, 10, 12} -> 31
      [] m \in {4, 6, 9, 11} -> 30
      [] OTHER -> IF IsLeap(y) THEN 29 ELSE 28

\* d.setUTCDate(n) for n no larger than the day of the month: a day number
\* below 1 counts back into the preceding months
RECURSIVE setUTCDate(_, _)
setUTCDate(d, n) ==
    IF n >= 1
    THEN <<d[1], d[2], n>>
    ELSE LET py == IF d[2] = 1 THEN d[1] - 1 ELSE d[1]
             pm == IF d[2] = 1 THEN 12 ELSE d[2] - 1
         IN  setUTCDate(<<py, pm, 1>>, n + DaysInMonth(py, pm))

DigitChars == <<"0","1","2","3","4","5","6","7","8","9">>
Pad2(n) == <<DigitChars[((n \div 10) % 10) + 1], DigitChars[(n % 10) + 1]>>
Pad4(n) == Pad2(n \div 100) \o Pad2(n % 100)

\* d.toISOString().slice(0, 10)
toISODate(d) == Pad4(d[1]) \o <<"-">> \o Pad2(d[2]) \o <<"-">> \o Pad2(d[3])

\* utcDateOffset(daysBack), with the clock reading `now`
utcDateOffset(now, daysBack) == toISODate(setUTCDate(now, now[3] - daysBack))

\* the calendar day after d: what the clock reads once midnight has passed
NextDay(d) ==
    IF d[3] < DaysInMonth(d[1], d[2]) THEN <<d[1], d[2], d[3] + 1>>
    ELSE IF d[2] < 12 THEN <<d[1], d[2] + 1, 1>>
    ELSE <<d[1] + 1, 1, 1>>

eventKeyOf(date) == <<"keccak:events:", date>>
sessionKeyOf(date) == <<"keccak:sessions:", date>>

(***************************************************************************)
(* The store: Redis keys holding a hash or a set, each with a TTL in       *)
(* seconds (-1: none).  A command on a missing key starts from an empty    *)
(* value, as Redis does.                                                   *)
(***************************************************************************)
EmptyMap == [f \in {} |-> 0]
NoTTL == -1

HashAt(db, key) == IF key \in DOMAIN db THEN db[key].v ELSE EmptyMap
SetAt(db, key) == IF key \in DOMAIN db THEN db[key].v ELSE {}
TTLAt(db, key) == IF key \in DOMAIN db THEN db[key].ttl ELSE NoTTL

Put(db, key, entry) == [k \in DOMAIN db \cup {key} |-> IF k = key THEN entry ELSE db[k]]

HINCRBY(db, key, field, by) ==
    LET h == HashAt(db, key)
        old == IF field \in DOMAIN h THEN h[field] ELSE 0
        new == [f \in DOMAIN h \cup {field} |-> IF f = field THEN old + by ELSE h[f]]
    IN  Put(db, key, [type |-> "hash", v |-> new, ttl |-> TTLAt(db, key)])

\* the mutant of SADD that replaces the set by the member
SADDOverwrite(db, key, member) ==
    Put(db, key, [type |-> "set", v |-> {member}, ttl |-> TTLAt(db, key)])

SADD(db, key, member) ==
    Put(db, key, [type |-> "set", v |-> SetAt(db, key) \cup {member}, ttl |-> TTLAt(db, key)])

EXPIRE(db, key, seconds) ==
    IF key \in DOMAIN db THEN [db EXCEPT ![key].ttl = seconds] ELSE db

HGETALL(db, key) == HashAt(db, key)
SCARD(db, key) == Cardinality(SetAt(db, key))

ApplyCommand(db, c) ==
    CASE c.c = "hincrby" -> HINCRBY(db, c.key, c.field, c.by)
      [] c.c = "sadd" -> SADD(db, c.key, c.member)
      [] c.c = "expire" -> EXPIRE(db, c.key, c.seconds)

\* the mutant of ApplyAll that applies the first queued command only
ApplyFirst(db, cmds) == IF cmds = <<>> THEN db ELSE ApplyCommand(db, Head(cmds))

\* MULTI ... EXEC: the queued commands, applied in order with nothing in between
RECURSIVE ApplyAll(_, _)
ApplyAll(db, cmds) ==
    IF cmds = <<>> THEN db ELSE ApplyAll(ApplyCommand(db, Head(cmds)), Tail(cmds))

(***************************************************************************)
(* Inputs.                                                                 *)
(***************************************************************************)
TotalField == <<"_", "t", "o", "t", "a", "l">>
TTLSeconds == 60 * 60 * 24 * 120
maxBytes == 64 * 1024

\* the ADMIN_TOKEN a deployment may configure, and a token that is not it
Secret == <<"k", "e", "y">>
Wrong == <<"b", "a", "d">>
AdminTokens == {<<>>, Secret}

Obj(props) == [t |-> "object", props |-> props]
SessA == <<"s", "e", "s", "s", "-", "1">>
SessB == <<"s", "e", "s", "s", "-", "2">>

\* what JSON.parse makes of a request body
JsonValues ==
    { Obj([event |-> Str(<<"a">>)]),
      Obj([event |-> Str(<<"a">>), sessionId |-> Str(SessA)]),
      Obj([event |-> Str(<<"b">>), sessionId |-> Str(SessB)]),
      Obj([event |-> Str(<<"a">>), sessionId |-> Str(<<"s", "1">>)]),
      Obj([event |-> Str(TotalField)]),
      Obj([event |-> Str(<<"a", "!">>)]),
      null, Num(5), Str(<<"a">>), [t |-> "array"], Bool(TRUE) }

SyntaxError == [t |-> "SyntaxError"]

\* a request body: the lengths of its chunks and what JSON.parse makes of it
Bodies ==
    [chunks : {<<20>>}, json : JsonValues \cup {SyntaxError}]
        \cup [chunks : {<<>>, <<maxBytes>>, <<maxBytes, 1>>, <<maxBytes + 1>>},
               json : {Obj([event |-> Str(<<"a">>)])}]

\* GET /api/stats: the x-admin-token header (undefined: not sent), the token
\* query parameter (null: not given) and the days query parameter
StatsRequest(header, query, days) == [header |-> header, query |-> query, days |-> days]

StatsRequests ==
    { StatsRequest(undefined, null, Str(<<"2">>)),
      StatsRequest(undefined, Str(Secret), Str(<<"2">>)),
      StatsRequest(Str(Secret), Str(Wrong), Str(<<"0">>)),
      StatsRequest(Str(Wrong), Str(Secret), Str(<<"2">>)),
      StatsRequest(Str(<<>>), Str(Secret), Str(<<"2">>)),
      StatsRequest(Str(Secret), null, Str(<<"3">>)) }

ErrorMessages == {"ECONNRESET"}
\* the message of an error reply of the store, which leaves the connection up
ReplyErrors == {"BUSY"}
ConnectionClosed == "Connection is closed."

StartDates == {<<2024, 3, 1>>}

Reqs == 1..MaxReq

(***************************************************************************)
(* State.                                                                  *)
(***************************************************************************)
VARIABLES
    adminToken,     \* process.env.ADMIN_TOKEN || "", fixed at start
    redisState,     \* {enabled, connected, lastError}
    phase,          \* "connecting" (await redis.connect()), "listening", "crashed"
    clientStatus,   \* the ioredis client: "ready" or "reconnecting"
    reachable,      \* whether the store answers on the network
    now,            \* the server clock's UTC day
    ticks,          \* how many midnights passed
    db,             \* the store's keys
    pending,        \* commands sent on the connection and not yet answered, oldest first
    reqs,           \* the handler invocation of each request: position and locals
    res,            \* the response sent last, with the request it answers
    lastTx,         \* history: the ingest transaction the store applied last
    destroyed,      \* the requests whose connection req.destroy() destroyed
    shuttingDown,   \* let shuttingDown
    closing,        \* closeServer: its position, and how often it closed the
                    \* server and released the store connection
    signals         \* how many shutdown signals were delivered

vars == <<adminToken, redisState, phase, clientStatus, reachable, now, ticks,
          db, pending, reqs, res, lastTx, destroyed, shuttingDown, closing, signals>>

closeVars == <<shuttingDown, closing, signals>>

envVars == <<reachable, now, ticks>>

NoRequest == [pc |-> "idle"]
Done == [pc |-> "done"]
NoResponse == [req |-> 0, status |-> 0]
NoTx == [date |-> <<>>]
NotClosing == [pc |-> "none", closes |-> 0, releases |-> 0]

Message(m) == [t |-> "message", v |-> m]

Init ==
    /\ adminToken \in AdminTokens
    /\ \E enabled \in BOOLEAN :
          /\ redisState = [enabled |-> enabled, connected |-> FALSE, lastError |-> null]
          /\ phase = IF enabled THEN "connecting" ELSE "listening"
    /\ clientStatus = "reconnecting"
    /\ reachable \in BOOLEAN
    /\ now \in StartDates
    /\ ticks = 0
    /\ db = [k \in {} |-> 0]
    /\ pending = <<>>
    /\ reqs = [r \in Reqs |-> NoRequest]
    /\ res = NoResponse
    /\ lastTx = NoTx
    /\ destroyed = {}
    /\ shuttingDown = FALSE
    /\ closing = NotClosing
    /\ signals = 0

(***************************************************************************)
(* The environment: the network, the clock and the ioredis client's        *)
(* events.                                                                 *)
(***************************************************************************)
Alive == phase \notin {"crashed", "exited"}

LinkDown ==
    /\ Alive /\ reachable
    /\ reachable' = FALSE
    /\ UNCHANGED <<adminToken, closeVars, destroyed, redisState, phase, clientStatus, now, ticks, db, pending,
                   reqs, res, lastTx>>

LinkUp ==
    /\ Alive /\ ~reachable
    /\ reachable' = TRUE
    /\ UNCHANGED <<adminToken, closeVars, destroyed, redisState, phase, clientStatus, now, ticks, db,
                   pending, reqs, res, lastTx>>

\* UTC midnight passes
Tick ==
    /\ Alive /\ ticks < MaxTicks
    /\ now' = NextDay(now)
    /\ ticks' = ticks + 1
    /\ UNCHANGED <<adminToken, closeVars, destroyed, redisState, phase, clientStatus, reachable, db,
                   pending, reqs, res, lastTx>>

\* redis.on("ready", ...)
onReady(state) == [state EXCEPT !.connected = TRUE, !.lastError = null]

\* redis.on("error", ...)
onError(state, msg) == [state EXCEPT !.connected = FALSE, !.lastError = Message(msg)]

\* await redis.connect() resolves: the client became ready
ConnectResolve ==
    /\ phase = "connecting" /\ reachable
    /\ redisState' = onReady(redisState)
    /\ clientStatus' = "ready"
    /\ phase' = "listening"
    /\ UNCHANGED <<adminToken, closeVars, destroyed, envVars, db, pending, reqs, res, lastTx>>

\* await redis.connect() rejects: the client emitted "error" and the catch
\* records the rejection's message; the client goes on reconnecting
ConnectReject(msg, rejection) ==
    /\ phase = "connecting" /\ ~reachable
    /\ redisState' = [onError(redisState, msg) EXCEPT !.lastError = Message(rejection)]
    /\ clientStatus' = "reconnecting"
    /\ phase' = "listening"
    /\ UNCHANGED <<adminToken, closeVars, destroyed, envVars, db, pending, reqs, res, lastTx>>

\* the client emits "ready" after a reconnection
RedisReady ==
    /\ phase = "listening" /\ redisState.enabled
    /\ reachable /\ clientStatus = "reconnecting"
    /\ redisState' = onReady(redisState)
    /\ clientStatus' = "ready"
    /\ UNCHANGED <<adminToken, closeVars, destroyed, phase, envVars, db, pending, reqs, res, lastTx>>

\* the client emits "error": the socket failed or a reconnection was refused
RedisError(msg) ==
    /\ phase = "listening" /\ redisState.enabled
    /\ ~reachable
    /\ redisState' = onError(redisState, msg)
    /\ clientStatus' = "reconnecting"
    /\ UNCHANGED <<adminToken, closeVars, destroyed, phase, envVars, db, pending, reqs, res, lastTx>>

(***************************************************************************)
(* Helpers of the request handlers.                                        *)
(***************************************************************************)
\* json(res, statusCode, payload)
json(r, statusCode, payload) ==
    res' = [req |-> r, status |-> statusCode, body |-> payload]

\* request r arrives: requests are numbered in order of arrival; a server
\* that was closed accepts none
Arrives(r) ==
    /\ phase = "listening"
    /\ ~shuttingDown
    /\ reqs[r].pc = "idle"
    /\ \A q \in Reqs : q < r => reqs[q].pc # "idle"

\* the mutant of storeAvailable that lets every call through
storeUnchecked(state) == TRUE

\* the mutant of storeAvailable that tests only for a client
storeConfigured(state) == state.enabled

\* !redis || !redisState.connected, negated: redis is set iff enabled
storeAvailable(state) == state.enabled /\ state.connected

Send(cmds) == pending' = pending \o cmds

\* the oldest unanswered command is request r's `op`
HeadIs(r, op) ==
    /\ Alive
    /\ pending # <<>>
    /\ Head(pending).req = r
    /\ Head(pending).op = op

\* the store answers the oldest command, with a result or with an error reply
Answers == reachable /\ clientStatus = "ready"
\* the oldest command fails with a transport error
Fails == ~reachable

\* the data and end events of readJsonBody: the number of chunks kept, or the
\* rejection once the running total exceeds maxBytes; the rejecting data event
\* goes on to req.destroy(), which destroys the connection of the request
RECURSIVE ReadChunks(_, _, _)
ReadChunks(chunks, total, kept) ==
    IF chunks = <<>> THEN [rejected |-> FALSE, kept |-> kept]
    ELSE IF total + Head(chunks) > maxBytes THEN [rejected |-> TRUE, kept |-> kept]
    ELSE ReadChunks(Tail(chunks), total + Head(chunks), kept + 1)

readJsonBody(body) ==
    LET rd == ReadChunks(body.chunks, 0, 0)
    IN  IF rd.rejected
        THEN [ok |-> FALSE, error |-> "body_too_large", destroyed |-> TRUE]
        ELSE IF rd.kept = 0
        THEN [ok |-> TRUE, value |-> Obj(EmptyMap), destroyed |-> FALSE]
        ELSE IF body.json = SyntaxError
        THEN [ok |-> FALSE, error |-> "invalid_json", destroyed |-> FALSE]
        ELSE [ok |-> TRUE, value |-> body.json, destroyed |-> FALSE]

\* x.p throws a TypeError when x is null or undefined
Throws(x) == x.t \in {"null", "undefined"}

\* x.p for the own properties of a parsed JSON value; a primitive or an array
\* has neither an `event` nor a `sessionId` property
GetProp(x, p) ==
    IF x.t = "object" /\ p \in DOMAIN x.props THEN x.props[p] ELSE undefined

\* the mutant of storeEventTx that sets no TTL on the Session Set
storeEventTxNoSetTTL(date, eventName, sessionId) ==
    <<[c |-> "hincrby", key |-> eventKeyOf(date), field |-> eventName.v, by |-> 1],
      [c |-> "hincrby", key |-> eventKeyOf(date), field |-> TotalField, by |-> 1],
      [c |-> "expire", key |-> eventKeyOf(date), seconds |-> TTLSeconds]>>
    \o (IF isValidSessionId(sessionId)
        THEN <<[c |-> "sadd", key |-> sessionKeyOf(date), member |-> sessionId.v]>>
        ELSE <<>>)

\* the commands storeEvent queues on the transaction
storeEventTx(date, eventName, sessionId) ==
    <<[c |-> "hincrby", key |-> eventKeyOf(date), field |-> eventName.v, by |-> 1],
      [c |-> "hincrby", key |-> eventKeyOf(date), field |-> TotalField, by |-> 1],
      [c |-> "expire", key |-> eventKeyOf(date), seconds |-> TTLSeconds]>>
    \o (IF isValidSessionId(sessionId)
        THEN <<[c |-> "sadd", key |-> sessionKeyOf(date), member |-> sessionId.v],
               [c |-> "expire", key |-> sessionKeyOf(date), seconds |-> TTLSeconds]>>
        ELSE <<>>)

\* req.headers["x-admin-token"] || url.searchParams.get("token")
suppliedTokenOf(header, query) == Or(header, query)

\* the mutant of tokenMatches that tests only for a token being supplied
tokenSupplied(suppliedToken, token) == Truthy(suppliedToken)

\* suppliedToken !== adminToken, negated
tokenMatches(suppliedToken, token) == suppliedToken = Str(token)

\* the two reads buildStats issues for one day
dayReads(r, date) ==
    <<[req |-> r, op |-> "hgetall", key |-> eventKeyOf(date)],
      [req |-> r, op |-> "scard", key |-> sessionKeyOf(date)]>>

\* the payload of buildHealth
healthPayload(state, pingMs) ==
    [status |-> "ok", service |-> "keccak-model",
     redis |-> [enabled |-> state.enabled, connected |-> state.connected,
                pingMs |-> pingMs, lastError |-> state.lastError]]

(***************************************************************************)
(* POST /api/events.                                                       *)
(***************************************************************************)
\* the mutant of PostEvents that records a rejected body in the health state
PostEventsRecordsRejection(r, body) ==
    /\ Arrives(r)
    /\ ~readJsonBody(body).ok
    /\ json(r, 400, [error |-> readJsonBody(body).error])
    /\ redisState' = [redisState EXCEPT !.lastError = Message(readJsonBody(body).error)]
    /\ reqs' = [reqs EXCEPT ![r] = Done]
    /\ destroyed' = IF readJsonBody(body).destroyed THEN destroyed \cup {r} ELSE destroyed
    /\ UNCHANGED <<adminToken, closeVars, phase, clientStatus, envVars, db, pending, lastTx>>

\* the handler from the arrival of the request to its response or to the
\* await of tx.exec(): readJsonBody, the validation and the start of
\* storeEvent; nothing before the end of the body reads the server's state.
\* The 400 after req.destroy() is written to a destroyed connection.
PostEvents(r, body) ==
    /\ Arrives(r)
    /\ destroyed' = IF readJsonBody(body).destroyed THEN destroyed \cup {r} ELSE destroyed
    /\ LET rb == readJsonBody(body)
           eventName == GetProp(rb.value, "event")
           sessionId == GetProp(rb.value, "sessionId")
           date == utcDateOffset(now, 0)
       IN  IF ~rb.ok
           THEN /\ json(r, 400, [error |-> rb.error])
                /\ reqs' = [reqs EXCEPT ![r] = Done]
                /\ UNCHANGED <<pending, phase>>
           ELSE IF Throws(rb.value)
           THEN \* body.event throws: the handler's promise rejects with nothing
                \* to catch it, which ends the process unless the runtime is
                \* set to only warn
                /\ reqs' = [reqs EXCEPT ![r] = [pc |-> "threw"]]
                /\ \E fatal \in BOOLEAN : phase' = IF fatal THEN "crashed" ELSE phase
                /\ UNCHANGED <<pending, res>>
           ELSE IF ~isValidEventName(eventName)
           THEN /\ json(r, 400, [error |-> "invalid_event_name"])
                /\ reqs' = [reqs EXCEPT ![r] = Done]
                /\ UNCHANGED <<pending, phase>>
           ELSE IF ~storeAvailable(redisState)
           THEN /\ json(r, 202, [ok |-> TRUE, stored |-> FALSE,
                                 redisEnabled |-> redisState.enabled])
                /\ reqs' = [reqs EXCEPT ![r] = Done]
                /\ UNCHANGED <<pending, phase>>
           ELSE /\ Send(<<[req |-> r, op |-> "exec", date |-> date,
                           eventName |-> eventName, sessionId |-> sessionId,
                           cmds |-> storeEventTx(date, eventName, sessionId)]>>)
                /\ reqs' = [reqs EXCEPT ![r] = [pc |-> "exec"]]
                /\ UNCHANGED <<res, phase>>
    /\ UNCHANGED <<adminToken, closeVars, redisState, clientStatus, envVars, db, lastTx>>

\* one line of the history: transaction tx as the store applied it
LogEntry(tx, before, after) ==
    LET ek == eventKeyOf(tx.date)
        sk == sessionKeyOf(tx.date)
        count(d) == IF tx.eventName.v \in DOMAIN HashAt(d, ek)
                    THEN HashAt(d, ek)[tx.eventName.v] ELSE 0
    IN  [date |-> tx.date, eventName |-> tx.eventName, sessionId |-> tx.sessionId,
         wasMember |-> IsString(tx.sessionId) /\ tx.sessionId.v \in SetAt(before, sk),
         countBefore |-> count(before), countAfter |-> count(after),
         cardBefore |-> SCARD(before, sk), cardAfter |-> SCARD(after, sk)]

\* await tx.exec() resolves: the store applied the transaction; return true
ExecReply(r) ==
    /\ HeadIs(r, "exec") /\ Answers
    /\ db' = ApplyAll(db, Head(pending).cmds)
    /\ lastTx' = LogEntry(Head(pending), db, db')
    /\ pending' = Tail(pending)
    /\ reqs' = [reqs EXCEPT ![r] = Done]
    /\ json(r, 202, [ok |-> TRUE, stored |-> TRUE, redisEnabled |-> redisState.enabled])
    /\ UNCHANGED <<adminToken, closeVars, destroyed, redisState, phase, clientStatus, envVars>>

\* the mutant of storeEventCatch that lets the error out of storeEvent
storeEventRethrow(r, msg) ==
    /\ redisState' = [redisState EXCEPT !.lastError = Message(msg)]
    /\ reqs' = [reqs EXCEPT ![r] = [pc |-> "threw"]]
    /\ UNCHANGED res

\* the catch of storeEvent: record the message, return false
storeEventCatch(r, msg) ==
    /\ redisState' = [redisState EXCEPT !.lastError = Message(msg)]
    /\ reqs' = [reqs EXCEPT ![r] = Done]
    /\ json(r, 202, [ok |-> TRUE, stored |-> FALSE, redisEnabled |-> redisState.enabled])

\* await tx.exec() rejects with a transport error
ExecError(r, msg) ==
    /\ HeadIs(r, "exec") /\ Fails
    /\ pending' = Tail(pending)
    /\ clientStatus' = "reconnecting"
    /\ storeEventCatch(r, msg)
    /\ UNCHANGED <<adminToken, closeVars, destroyed, phase, envVars, db, lastTx>>

\* await tx.exec() rejects with an error reply of the store: the transaction
\* was not executed, the connection stays up
ExecRefused(r, msg) ==
    /\ HeadIs(r, "exec") /\ Answers
    /\ pending' = Tail(pending)
    /\ storeEventCatch(r, msg)
    /\ UNCHANGED <<adminToken, closeVars, destroyed, phase, clientStatus, envVars, db, lastTx>>

(***************************************************************************)
(* GET /api/stats.                                                         *)
(***************************************************************************)
\* the handler up to its response or to the first await of buildStats: the
\* admin gate, the availability check, the days parameter, the reads of day 0
GetStats(r, req) ==
    /\ Arrives(r)
    /\ LET suppliedToken == suppliedTokenOf(req.header, req.query)
           days == daysOfQuery(req.days)
           date == utcDateOffset(now, 0)
       IN  IF adminToken = <<>>
           THEN /\ json(r, 403, [error |-> "admin_token_not_configured"])
                /\ reqs' = [reqs EXCEPT ![r] = Done]
                /\ UNCHANGED pending
           ELSE IF ~tokenMatches(suppliedToken, adminToken)
           THEN /\ json(r, 401, [error |-> "unauthorized"])
                /\ reqs' = [reqs EXCEPT ![r] = Done]
                /\ UNCHANGED pending
           ELSE IF ~storeAvailable(redisState)
           THEN /\ json(r, 503, [error |-> "redis_unavailable",
                                 lastError |-> redisState.lastError])
                /\ reqs' = [reqs EXCEPT ![r] = Done]
                /\ UNCHANGED pending
           ELSE IF ~(0 < days)
           THEN \* the loop of buildStats runs no iteration
                /\ json(r, 200, [days |-> days, stats |-> <<>>])
                /\ reqs' = [reqs EXCEPT ![r] = Done]
                /\ UNCHANGED pending
           ELSE /\ Send(dayReads(r, date))
                /\ reqs' = [reqs EXCEPT ![r] =
                              [pc |-> "reads", days |-> days, i |-> 0, date |-> date,
                               events |-> undefined, result |-> <<>>]]
                /\ UNCHANGED res
    /\ UNCHANGED <<adminToken, closeVars, destroyed, redisState, phase, clientStatus, envVars, db, lastTx>>

\* redis.hgetall(eventKey) resolves; Promise.all still waits for the scard
HgetallReply(r) ==
    /\ HeadIs(r, "hgetall") /\ Answers
    /\ reqs[r].pc = "reads"
    /\ reqs' = [reqs EXCEPT ![r].events = Obj(HGETALL(db, Head(pending).key))]
    /\ pending' = Tail(pending)
    /\ UNCHANGED <<adminToken, closeVars, destroyed, redisState, phase, clientStatus, envVars, db, res, lastTx>>

\* redis.scard(sessionKey) resolves and with it Promise.all: push the day's
\* entry, then read the next day or answer 200
ScardReply(r) ==
    /\ HeadIs(r, "scard") /\ Answers
    /\ reqs[r].pc = "reads"
    /\ LET q == reqs[r]
           entry == [date |-> q.date, events |-> q.events,
                     uniqueSessions |-> SCARD(db, Head(pending).key)]
           result == Append(q.result, entry)
           i == q.i + 1
           date == utcDateOffset(now, i)
       IN  IF i < q.days
           THEN /\ pending' = Tail(pending) \o dayReads(r, date)
                /\ reqs' = [reqs EXCEPT ![r] =
                              [q EXCEPT !.i = i, !.date = date, !.events = undefined,
                                        !.result = result]]
                /\ UNCHANGED res
           ELSE /\ pending' = Tail(pending)
                /\ reqs' = [reqs EXCEPT ![r] = Done]
                /\ json(r, 200, [days |-> q.days, stats |-> result])
    /\ UNCHANGED <<adminToken, closeVars, destroyed, redisState, phase, clientStatus, envVars, db, lastTx>>

\* the mutant of statsCatch that answers with the days read so far
statsPartial(r, msg) ==
    json(r, 200, [days |-> reqs[r].days, stats |-> reqs[r].result])

\* the catch around buildStats
statsCatch(r, msg) ==
    json(r, 500, [error |-> "stats_query_failed", detail |-> msg])

\* a read of the day rejects with a transport error and with it Promise.all
ReadError(r, msg) ==
    /\ \/ HeadIs(r, "hgetall")
       \/ HeadIs(r, "scard")
    /\ Fails
    /\ reqs[r].pc = "reads"
    /\ pending' = Tail(pending)
    /\ clientStatus' = "reconnecting"
    /\ reqs' = [reqs EXCEPT ![r] = Done]
    /\ statsCatch(r, msg)
    /\ UNCHANGED <<adminToken, closeVars, destroyed, redisState, phase, envVars, db, lastTx>>

\* a read of the day rejects with an error reply of the store
ReadRefused(r, msg) ==
    /\ \/ HeadIs(r, "hgetall")
       \/ HeadIs(r, "scard")
    /\ Answers
    /\ reqs[r].pc = "reads"
    /\ pending' = Tail(pending)
    /\ reqs' = [reqs EXCEPT ![r] = Done]
    /\ statsCatch(r, msg)
    /\ UNCHANGED <<adminToken, closeVars, destroyed, redisState, phase, clientStatus,
                   envVars, db, lastTx>>

\* the answer to a read whose Promise.all has already rejected: nobody waits
DropReply ==
    /\ Alive
    /\ pending # <<>>
    /\ reqs[Head(pending).req].pc = "done"
    /\ Answers \/ Fails
    /\ pending' = Tail(pending)
    /\ clientStatus' = IF Fails THEN "reconnecting" ELSE clientStatus
    /\ UNCHANGED <<adminToken, closeVars, destroyed, redisState, phase, envVars, db, reqs, res, lastTx>>

(***************************************************************************)
(* GET /api/health.                                                        *)
(***************************************************************************)
\* the elapsed milliseconds of a ping, left out
Elapsed == [t |-> "number"]

\* the handler up to its response or to the await of redis.ping()
GetHealth(r) ==
    /\ Arrives(r)
    /\ IF storeAvailable(redisState)
       THEN /\ Send(<<[req |-> r, op |-> "ping"]>>)
            /\ reqs' = [reqs EXCEPT ![r] = [pc |-> "ping"]]
            /\ UNCHANGED res
       ELSE /\ json(r, 200, healthPayload(redisState, null))
            /\ reqs' = [reqs EXCEPT ![r] = Done]
            /\ UNCHANGED pending
    /\ UNCHANGED <<adminToken, closeVars, destroyed, redisState, phase, clientStatus, envVars, db, lastTx>>

\* await redis.ping() resolves
PingReply(r) ==
    /\ HeadIs(r, "ping") /\ Answers
    /\ pending' = Tail(pending)
    /\ reqs' = [reqs EXCEPT ![r] = Done]
    /\ json(r, 200, healthPayload(redisState, Elapsed))
    /\ UNCHANGED <<adminToken, closeVars, destroyed, redisState, phase, clientStatus, envVars, db, lastTx>>

\* await redis.ping() rejects: the catch of buildHealth
PingError(r, msg) ==
    /\ HeadIs(r, "ping") /\ Fails
    /\ pending' = Tail(pending)
    /\ clientStatus' = "reconnecting"
    /\ redisState' = [redisState EXCEPT !.connected = FALSE, !.lastError = Message(msg)]
    /\ reqs' = [reqs EXCEPT ![r] = Done]
    /\ json(r, 200, healthPayload(redisState', null))
    /\ UNCHANGED <<adminToken, closeVars, destroyed, phase, envVars, db, lastTx>>

\* await redis.ping() rejects with an error reply of the store: the catch of
\* buildHealth, the connection staying up
PingRefused(r, msg) ==
    /\ HeadIs(r, "ping") /\ Answers
    /\ pending' = Tail(pending)
    /\ redisState' = [redisState EXCEPT !.connected = FALSE, !.lastError = Message(msg)]
    /\ reqs' = [reqs EXCEPT ![r] = Done]
    /\ json(r, 200, healthPayload(redisState', null))
    /\ UNCHANGED <<adminToken, closeVars, destroyed, phase, clientStatus, envVars, db, lastTx>>

(***************************************************************************)
(* Shutdown: closeServer, the handler of SIGINT and SIGTERM.               *)
(***************************************************************************)
\* a request whose connection is open: its handler has not answered
InFlight(r) == reqs[r].pc \notin {"idle", "done"}

\* the mutant of closeServer without the shuttingDown test
closeServerUnguarded ==
    /\ shuttingDown' = TRUE
    /\ closing' = [closing EXCEPT !.pc = "close", !.closes = @ + 1]

\* closeServer up to its first await: return when a shutdown is in progress,
\* else set the flag and call server.close()
closeServer ==
    IF shuttingDown
    THEN UNCHANGED <<shuttingDown, closing>>
    ELSE /\ shuttingDown' = TRUE
         /\ closing' = [closing EXCEPT !.pc = "close", !.closes = @ + 1]

\* SIGINT or SIGTERM is delivered to the process, its handlers registered
Signal ==
    /\ phase = "listening"
    /\ signals < MaxSignals
    /\ signals' = signals + 1
    /\ closeServer
    /\ UNCHANGED <<adminToken, destroyed, redisState, phase, clientStatus, envVars, db,
                   pending, reqs, res, lastTx>>

\* the callback of server.close(): every connection has ended; then
\* redis.quit() with a client, process.exit(0) without one
ServerClosed ==
    /\ phase = "listening"
    /\ closing.pc = "close"
    /\ \A r \in Reqs : ~InFlight(r)
    /\ IF redisState.enabled
       THEN /\ closing' = [closing EXCEPT !.pc = "quit"]
            /\ UNCHANGED phase
       ELSE /\ closing' = [closing EXCEPT !.pc = "exited"]
            /\ phase' = "exited"
    /\ UNCHANGED <<adminToken, destroyed, shuttingDown, signals, redisState, clientStatus,
                   envVars, db, pending, reqs, res, lastTx>>

\* await redis.quit() resolves, the replies to all earlier commands received:
\* the connection is released; process.exit(0)
QuitReply ==
    /\ phase = "listening"
    /\ closing.pc = "quit"
    /\ pending = <<>>
    /\ Answers
    /\ closing' = [closing EXCEPT !.pc = "exited", !.releases = @ + 1]
    /\ phase' = "exited"
    /\ UNCHANGED <<adminToken, destroyed, shuttingDown, signals, redisState, clientStatus,
                   envVars, db, pending, reqs, res, lastTx>>

\* await redis.quit() rejects: redis.disconnect() releases the connection;
\* process.exit(0)
QuitError ==
    /\ phase = "listening"
    /\ closing.pc = "quit"
    /\ pending = <<>>
    /\ Fails
    /\ closing' = [closing EXCEPT !.pc = "exited", !.releases = @ + 1]
    /\ phase' = "exited"
    /\ UNCHANGED <<adminToken, destroyed, shuttingDown, signals, redisState, clientStatus,
                   envVars, db, pending, reqs, res, lastTx>>

(***************************************************************************)
(* The server.                                                             *)
(***************************************************************************)
Next ==
    \/ LinkDown
    \/ LinkUp
    \/ Tick
    \/ ConnectResolve
    \/ \E msg \in ErrorMessages : ConnectReject(msg, ConnectionClosed)
    \/ RedisReady
    \/ \E msg \in ErrorMessages : RedisError(msg)
    \/ \E r \in Reqs, body \in Bodies : PostEvents(r, body)
    \/ \E r \in Reqs : ExecReply(r)
    \/ \E r \in Reqs, msg \in ErrorMessages : ExecError(r, msg)
    \/ \E r \in Reqs, req \in StatsRequests : GetStats(r, req)
    \/ \E r \in Reqs : HgetallReply(r)
    \/ \E r \in Reqs : ScardReply(r)
    \/ \E r \in Reqs, msg \in ErrorMessages : ReadError(r, msg)
    \/ DropReply
    \/ \E r \in Reqs : GetHealth(r)
    \/ \E r \in Reqs : PingReply(r)
    \/ \E r \in Reqs, msg \in ErrorMessages : PingError(r, msg)
    \/ \E r \in Reqs, msg \in ReplyErrors : ExecRefused(r, msg)
    \/ \E r \in Reqs, msg \in ReplyErrors : ReadRefused(r, msg)
    \/ \E r \in Reqs, msg \in ReplyErrors : PingRefused(r, msg)

Spec == Init /\ [][Next]_vars

(***************************************************************************)
(* The server with shutdown signals.                                       *)
(***************************************************************************)
NextClose ==
    \/ Next
    \/ Signal
    \/ ServerClosed
    \/ QuitReply
    \/ QuitError

SpecClose == Init /\ [][NextClose]_vars

(***************************************************************************)
(* The days parameter: authorized stats calls on a healthy store, one for  *)
(* every short query string over an alphabet of digits, signs, a letter,   *)
(* a blank and a dot.                                                      *)
(***************************************************************************)
DaysAlphabet == {"0", "1", "3", "-", "+", "a", " ", "."}

RECURSIVE StringsUpTo(_)
StringsUpTo(n) ==
    IF n = 0 THEN {<<>>}
    ELSE LET shorter == StringsUpTo(n - 1)
         IN  shorter \cup {Append(s, c) : s \in shorter, c \in DaysAlphabet}

DaysInputs == {null} \cup {Str(s) : s \in StringsUpTo(MaxDaysLen)}

InitDays ==
    /\ Init
    /\ adminToken = Secret
    /\ redisState.enabled
    /\ reachable

StatsWithDays(param) == GetStats(1, StatsRequest(undefined, Str(Secret), param))

NextDays ==
    \/ ConnectResolve
    \/ \E param \in DaysInputs : StatsWithDays(param)
    \/ HgetallReply(1)
    \/ ScardReply(1)

SpecDays == InitDays /\ [][NextDays]_vars

(***************************************************************************)
(* Ingestion alone: events posted to a server whose store stays reachable. *)
(***************************************************************************)
InitIngest ==
    /\ Init
    /\ redisState.enabled
    /\ reachable

NextIngest ==
    \/ ConnectResolve
    \/ \E r \in Reqs, body \in Bodies : PostEvents(r, body)
    \/ \E r \in Reqs : ExecReply(r)

SpecIngest == InitIngest /\ [][NextIngest]_vars

(***************************************************************************)
(* Reconnection: the client is built without a retryStrategy (lines 55-59), *)
(* so it keeps trying to reconnect; while the store stays reachable an      *)
(* attempt succeeds and the client emits "ready".                           *)
(***************************************************************************)
SpecRecovery == Spec /\ WF_vars(RedisReady)

(***************************************************************************)
(* Properties.                                                             *)
(***************************************************************************)
RECURSIVE SumOver(_, _)
SumOver(f, S) ==
    IF S = {} THEN 0
    ELSE LET x == CHOOSE y \in S : TRUE IN f[x] + SumOver(f, S \ {x})

FieldOr0(h, field) == IF field \in DOMAIN h THEN h[field] ELSE 0

\* C1: in every reachable state of the store, the reserved _total field of each
\* day's event counter map equals the sum of all the other fields of that map
C1_TotalEqualsSumOfOthers ==
    \A key \in DOMAIN db :
        db[key].type = "hash" =>
            FieldOr0(db[key].v, TotalField)
                = SumOver(db[key].v, DOMAIN db[key].v \ {TotalField})

\* the await of request r ended in this step
ExecEnds(r) == reqs[r].pc = "exec" /\ reqs'[r].pc # "exec"

Responds(r, statusCode, payload) ==
    res' = [req |-> r, status |-> statusCode, body |-> payload]

\* C2: a POST /api/events with a valid event name is answered 202 {ok: true,
\* stored, redisEnabled} in every health state, with redisEnabled the enabled
\* flag, and with stored false when the store was unavailable at the call or
\* the transaction raised an error (the store then holds what it held)
C2_WritePathNeverFails ==
    [][\A r \in Reqs :
          /\ \A body \in Bodies :
                (/\ PostEvents(r, body)
                 /\ readJsonBody(body).ok
                 /\ ~Throws(readJsonBody(body).value)
                 /\ isValidEventName(GetProp(readJsonBody(body).value, "event")))
                => /\ phase' = "listening"
                   /\ IF redisState.enabled /\ redisState.connected
                      THEN reqs'[r].pc = "exec"
                      ELSE Responds(r, 202, [ok |-> TRUE, stored |-> FALSE,
                                             redisEnabled |-> redisState.enabled])
          /\ ExecEnds(r)
                => /\ phase' = "listening"
                   /\ reqs'[r].pc = "done"
                   /\ Responds(r, 202, [ok |-> TRUE, stored |-> (db' # db),
                                        redisEnabled |-> redisState.enabled])
                   /\ ~reachable => db' = db
      ]_vars

\* C2's case: a transaction failed while the health state said connected, and
\* the request was answered 202 with stored false
C2_Witness ==
    /\ res.status = 202
    /\ res.body = [ok |-> TRUE, stored |-> FALSE, redisEnabled |-> TRUE]
    /\ reqs[res.req].pc = "done"
    /\ redisState.connected
    /\ redisState.lastError # null

\* C3: a POST /api/events whose body is within the size cap and parses as JSON
\* is answered 400 invalid_event_name when the body carries no valid event
\* name and goes on to a 202 otherwise; the handler throws no uncaught error
\* and the process is not terminated
C3_ParsedBodyIsAnswered ==
    [][\A r \in Reqs : \A body \in Bodies :
          (PostEvents(r, body) /\ readJsonBody(body).ok)
          => /\ reqs'[r].pc # "threw"
             /\ phase' # "crashed"
             /\ LET value == readJsonBody(body).value
                    named == /\ value.t = "object"
                             /\ "event" \in DOMAIN value.props
                             /\ isValidEventName(value.props["event"])
                IN  IF named
                    THEN \/ reqs'[r].pc = "exec"
                         \/ res'.req = r /\ res'.status = 202
                    ELSE Responds(r, 400, [error |-> "invalid_event_name"])
      ]_vars

\* the calendar day before d
PrevDay(d) ==
    IF d[3] > 1 THEN <<d[1], d[2], d[3] - 1>>
    ELSE IF d[2] > 1 THEN <<d[1], d[2] - 1, DaysInMonth(d[1], d[2] - 1)>>
    ELSE <<d[1] - 1, 12, 31>>

RECURSIVE DaysBefore(_, _)
DaysBefore(d, n) == IF n = 0 THEN d ELSE DaysBefore(PrevDay(d), n - 1)

RECURSIVE DaysAfter(_, _)
DaysAfter(d, n) == IF n = 0 THEN d ELSE DaysAfter(NextDay(d), n - 1)

\* the days the server's clock reads in the course of a behaviour
ClockDays == {DaysAfter(d, n) : d \in StartDates, n \in 0..MaxTicks}

IsStatsResponse(r) == r.status = 200 /\ "stats" \in DOMAIN r.body

\* C4: a successful stats call for N days returns exactly N entries, entry i
\* dated today minus i days, so that the dates are consecutive and descending
\* with no day repeated or skipped, also when the UTC date changes during the
\* call
C4_StatsDatesConsecutive ==
    IsStatsResponse(res) =>
        /\ Len(res.body.stats) = res.body.days
        /\ \E today \in ClockDays :
              \A i \in 1..Len(res.body.stats) :
                  res.body.stats[i].date = toISODate(DaysBefore(today, i - 1))

\* the await of request r on the reads of a day ended the handler in this step
ReadsEnd(r) == reqs[r].pc = "reads" /\ reqs'[r].pc # "reads"

\* C5: when a read of a day fails with a transport error the whole stats call
\* is answered 500 stats_query_failed; a 200 is sent only with every one of
\* the N requested days read
C5_NoPartialAggregation ==
    [][\A r \in Reqs :
          ReadsEnd(r) =>
              /\ res'.req = r
              /\ ~reachable =>
                    /\ res'.status = 500
                    /\ res'.body.error = "stats_query_failed"
              /\ res'.status \in {200, 500}
              /\ res'.status = 200 =>
                    /\ reachable
                    /\ res'.body.days = reqs[r].days
                    /\ Len(res'.body.stats) = reqs[r].days
                    /\ \A i \in 1..Len(res'.body.stats) :
                          /\ res'.body.stats[i].events.t = "object"
                          /\ res'.body.stats[i].uniqueSessions \in Nat
      ]_vars

\* C5's case: a stats call was answered 500 when the first of a day's two reads
\* failed, the second being still unanswered
C5_Witness ==
    /\ res.status = 500
    /\ res.body.error = "stats_query_failed"
    /\ reqs[res.req].pc = "done"
    /\ pending # <<>>
    /\ Head(pending).req = res.req
    /\ Head(pending).op = "scard"

\* the handler of request r went past the admin gate in this step: it answered
\* from the store-availability check or began to read
PassesGate(r) ==
    \/ reqs'[r].pc = "reads"
    \/ res'.req = r /\ res'.status \in {200, 503}

\* the supplied token of a request, the header coming before the query parameter
Supplied(req) == Or(req.header, req.query)

\* C6: with no admin token configured a GET /api/stats is answered 403 for every
\* supplied token and store state; with one configured it passes the gate iff
\* the supplied token equals it, and is answered 401 otherwise, also with the
\* store healthy; the 403 and the 401 issue no store command and leave the
\* health state as it is
C6_AdminGate ==
    [][\A r \in Reqs : \A req \in StatsRequests :
          GetStats(r, req) =>
              /\ adminToken = <<>> =>
                    Responds(r, 403, [error |-> "admin_token_not_configured"])
              /\ adminToken # <<>> =>
                    (PassesGate(r) <=> Supplied(req) = Str(adminToken))
              /\ (adminToken # <<>> /\ Supplied(req) # Str(adminToken)) =>
                    Responds(r, 401, [error |-> "unauthorized"])
              /\ ~PassesGate(r) =>
                    /\ pending' = pending
                    /\ redisState' = redisState
                    /\ db' = db
      ]_vars

\* C6's case: a wrong or absent token was answered 401 with a token configured
\* and the store healthy
C6_Witness ==
    /\ res.status = 401
    /\ adminToken # <<>>
    /\ redisState.enabled /\ redisState.connected /\ reachable
    /\ pending = <<>>

\* C7: when a GET /api/stats carries both the x-admin-token header and the token
\* query parameter, the header's value alone decides, whatever it is, the empty
\* string included
C7_HeaderAloneDecides ==
    [][\A r \in Reqs : \A req \in StatsRequests :
          (/\ GetStats(r, req)
           /\ adminToken # <<>>
           /\ req.header # undefined
           /\ req.query # null)
          => (PassesGate(r) <=> req.header = Str(adminToken))
      ]_vars

\* C8: an authorized GET /api/stats issued while the health state is not
\* Connected is answered 503 redis_unavailable with the last recorded error
\* and issues no store read
C8_UnavailableIs503 ==
    [][\A r \in Reqs : \A req \in StatsRequests :
          (/\ GetStats(r, req)
           /\ adminToken # <<>>
           /\ Supplied(req) = Str(adminToken)
           /\ ~redisState.connected)
          => /\ Responds(r, 503, [error |-> "redis_unavailable",
                                  lastError |-> redisState.lastError])
             /\ pending' = pending
             /\ reqs'[r].pc = "done"
      ]_vars

\* C8's case: an authorized call was answered 503 carrying a recorded error
C8_Witness ==
    /\ res.status = 503
    /\ res.body.error = "redis_unavailable"
    /\ res.body.lastError = Message("ECONNRESET")
    /\ ~redisState.connected
    /\ pending = <<>>

\* a decimal integer: an optional minus sign and digits
IsIntegerString(s) ==
    /\ s # <<>>
    /\ LET u == IF Head(s) = "-" THEN Tail(s) ELSE s
       IN  u # <<>> /\ \A i \in 1..Len(u) : u[i] \in Digit

RECURSIVE DecimalValue(_)
DecimalValue(u) ==
    IF u = <<>> THEN 0
    ELSE 10 * DecimalValue(SubSeq(u, 1, Len(u) - 1))
            + (CHOOSE k \in 0..9 : DigitChars[k + 1] = u[Len(u)])

IntegerOf(s) == IF Head(s) = "-" THEN 0 - DecimalValue(Tail(s)) ELSE DecimalValue(s)

\* missing, empty or without a digit
IsNonNumeric(param) ==
    \/ param = null
    \/ param.v = <<>>
    \/ \A i \in 1..Len(param.v) : param.v[i] \notin Digit

C10_ReplayAddsTwo ==
    [][(/\ db' # db
        /\ lastTx # NoTx
        /\ lastTx'.date = lastTx.date
        /\ lastTx'.eventName = lastTx.eventName
        /\ lastTx'.sessionId = lastTx.sessionId)
       => /\ lastTx'.countAfter = lastTx.countBefore + 2
          /\ lastTx'.cardAfter - lastTx.cardBefore \in {0, 1}
          /\ (~isValidSessionId(lastTx.sessionId) \/ lastTx.wasMember) =>
                lastTx'.cardAfter = lastTx.cardBefore
      ]_vars

\* the cumulative size of the chunks of a body
RECURSIVE TotalBytes(_)
TotalBytes(chunks) == IF chunks = <<>> THEN 0 ELSE Head(chunks) + TotalBytes(Tail(chunks))

\* C11: a POST /api/events whose body chunks add up to more than 65536 bytes is
\* answered 400 body_too_large, the answer reaching the client on the request's
\* connection, and the request reaches neither the validation nor the store; a
\* body of exactly 65536 bytes is not rejected for its size
C11_OversizedIsAnswered400 ==
    [][\A r \in Reqs : \A body \in Bodies :
          PostEvents(r, body) =>
              /\ TotalBytes(body.chunks) > 65536 =>
                    /\ Responds(r, 400, [error |-> "body_too_large"])
                    /\ r \notin destroyed'
                    /\ reqs'[r].pc = "done"
                    /\ pending' = pending
                    /\ db' = db
              /\ TotalBytes(body.chunks) = 65536 =>
                    ~(res'.req = r /\ res'.status = 400
                        /\ res'.body = [error |-> "body_too_large"])
      ]_vars

\* C12: after a transport error in a store operation (the transaction of
\* storeEvent, the ping of buildHealth, a day read of buildStats) the health
\* state is Errored: connected is false and lastError is that error's message
C12_TransportErrorIsErrored ==
    [][\A r \in Reqs : \A msg \in ErrorMessages :
          (ExecError(r, msg) \/ PingError(r, msg) \/ ReadError(r, msg))
          => /\ redisState'.connected = FALSE
             /\ redisState'.lastError = Message(msg)
      ]_vars

\* the health state Errored: a client exists, connected is false, an error is
\* recorded
Errored ==
    /\ redisState.enabled
    /\ ~redisState.connected
    /\ redisState.lastError # null

\* the process neither crashed nor exited
Running == phase \in {"connecting", "listening"}

\* C13: once the health state is Errored, by a failed ping or by an error
\* event of the client, if the store becomes reachable and stays reachable
\* (the process running), the health state returns to Connected and stays
\* Connected: Errored is not permanent while the store is reachable
C13_ErroredRecovers ==
    (<>[]reachable /\ []Running) => [](Errored => <>[]redisState.connected)

\* the health state Disabled
Disabled == [enabled |-> FALSE, connected |-> FALSE, lastError |-> null]

\* C14: with no store address configured the health state is Disabled in every
\* reachable state, no store command is issued and the store is untouched,
\* every ingest with a valid event name is answered stored false; and in any
\* configuration `enabled` keeps the value it had at process start
C14_DisabledIsTerminal ==
    /\ [](~redisState.enabled =>
            /\ redisState = Disabled
            /\ pending = <<>>
            /\ DOMAIN db = {})
    /\ [][/\ redisState'.enabled = redisState.enabled
          /\ ~redisState.enabled =>
                \A r \in Reqs : \A body \in Bodies :
                    (/\ PostEvents(r, body)
                     /\ readJsonBody(body).ok
                     /\ isValidEventName(GetProp(readJsonBody(body).value, "event")))
                    => Responds(r, 202, [ok |-> TRUE, stored |-> FALSE,
                                         redisEnabled |-> FALSE])
        ]_vars

\* C14's case: without a store, every request of the behaviour was served, the
\* last one an ingest answered stored false
C14_Witness ==
    /\ redisState = Disabled
    /\ \A r \in Reqs : reqs[r].pc = "done"
    /\ res.status = 202
    /\ res.body.stored = FALSE
    /\ res.body.redisEnabled = FALSE

\* the event counter map after one whole ingest of eventName
CountedOnce(h, eventName) ==
    [f \in DOMAIN h \cup {eventName, TotalField} |->
        FieldOr0(h, f) + (IF f = eventName THEN 1 ELSE 0) + (IF f = TotalField THEN 1 ELSE 0)]

\* the store changed in this step by exactly the whole transaction tx: both
\* increments, and the add of the session id when the ingest carries a valid one
WholeIngest(tx) ==
    LET ek == <<"keccak:events:", tx.date>>
        sk == <<"keccak:sessions:", tx.date>>
    IN  /\ ek \in DOMAIN db'
        /\ db'[ek].v = CountedOnce(HashAt(db, ek), tx.eventName.v)
        /\ IF isValidSessionId(tx.sessionId)
           THEN /\ sk \in DOMAIN db'
                /\ db'[sk].v = SetAt(db, sk) \cup {tx.sessionId.v}
           ELSE sk \in DOMAIN db' <=> sk \in DOMAIN db
        /\ \A k \in DOMAIN db' \ {ek, sk} : k \in DOMAIN db
        /\ \A k \in DOMAIN db \ {ek} : db'[k].v = IF k = sk THEN db'[sk].v ELSE db[k].v

\* the entry that the step pushed on the result of stats call r
PushedEntry(r) ==
    IF reqs'[r].pc = "reads"
    THEN reqs'[r].result[Len(reqs'[r].result)]
    ELSE res'.body.stats[Len(res'.body.stats)]

\* C15: readers see an ingest as one unit: the store changes only by whole
\* transactions (both increments and the session add together), and the
\* {date, events, uniqueSessions} entry of a stats call is the counter map and
\* the set cardinality of one and the same state of the store
C15_IngestAtomicForReaders ==
    [][/\ db' # db => pending # <<>> /\ Head(pending).op = "exec" /\ WholeIngest(Head(pending))
       /\ \A r \in Reqs :
             (/\ reqs[r].pc = "reads"
              /\ pending # <<>> /\ Head(pending).req = r /\ Head(pending).op = "scard"
              /\ reqs'[r] # reqs[r])
             => (res'.status = 500 /\ res'.req = r)
                \/ PushedEntry(r) =
                      [date |-> reqs[r].date,
                       events |-> Obj(HashAt(db, <<"keccak:events:", reqs[r].date>>)),
                       uniqueSessions |->
                           Cardinality(SetAt(db, <<"keccak:sessions:", reqs[r].date>>))]
      ]_vars

\* C15's case: a stats call returned a day on which an ingest with a session id
\* was stored, showing its counters and its session together
C15_Witness ==
    /\ IsStatsResponse(res)
    /\ Len(res.body.stats) > 0
    /\ FieldOr0(res.body.stats[1].events.props, TotalField) > 0
    /\ res.body.stats[1].uniqueSessions > 0

\* accepted ingests: an event name with a session id or without a valid one
Ingests ==
    { [eventName |-> Str(<<"a">>), sessionId |-> Str(SessA)],
      [eventName |-> Str(<<"a">>), sessionId |-> Str(SessB)],
      [eventName |-> Str(<<"b">>), sessionId |-> Str(SessA)],
      [eventName |-> Str(<<"b">>), sessionId |-> undefined],
      [eventName |-> Str(TotalField), sessionId |-> Str(SessB)],
      [eventName |-> Str(<<"a">>), sessionId |-> Str(<<"s", "1">>)] }

\* the store after the transactions of a sequence of ingests of one day
RECURSIVE StoreAfter(_, _, _)
StoreAfter(store, date, ingests) ==
    IF ingests = <<>> THEN store
    ELSE StoreAfter(ApplyAll(store, storeEventTx(date, Head(ingests).eventName,
                                                 Head(ingests).sessionId)),
                    date, Tail(ingests))

\* the orders of three ingests
Orders(x, y, z) ==
    { <<x, y, z>>, <<x, z, y>>, <<y, x, z>>, <<y, z, x>>, <<z, x, y>>, <<z, y, x>> }

\* C16: ingests stored on the same UTC day commute: whenever the store applies
\* an ingest, that ingest and any two further ingests of the same day leave the
\* same event counter map and Session Set in whatever order the three are
\* applied
C16_IngestsCommute ==
    [][db' # db =>
          LET date == Head(pending).date
              x == [eventName |-> Head(pending).eventName,
                    sessionId |-> Head(pending).sessionId]
          IN  \A y \in Ingests : \A z \in Ingests :
                  /\ StoreAfter(db', date, <<y, z>>) = StoreAfter(db, date, <<x, y, z>>)
                  /\ \A o \in Orders(x, y, z) :
                        StoreAfter(db, date, o) = StoreAfter(db, date, <<x, y, z>>)
      ]_vars

\* C16's case: two ingests with different session ids were stored on the same
\* day, the second finding the first one's counters and session
C16_Witness ==
    /\ lastTx # NoTx
    /\ lastTx.cardBefore = 1
    /\ lastTx.cardAfter = 2
    /\ Cardinality(DOMAIN HashAt(db, <<"keccak:events:", lastTx.date>>)) = 3

ValidationErrors == {"invalid_json", "body_too_large", "invalid_event_name"}

\* C17: a POST /api/events rejected with 400 (invalid_json, body_too_large or
\* invalid_event_name) issues no store command and leaves the store and the
\* health state exactly as they were
C17_ValidationErrorFrame ==
    [][\A r \in Reqs : \A body \in Bodies :
          (/\ PostEvents(r, body)
           /\ reqs'[r].pc = "done"
           /\ res'.req = r
           /\ res'.status = 400)
          => /\ res'.body.error \in ValidationErrors
             /\ pending' = pending
             /\ db' = db
             /\ redisState' = redisState
      ]_vars

\* C17's case: an event with an invalid name was rejected by a server whose
\* store is connected and holds an earlier ingest
C17_Witness ==
    /\ res.status = 400
    /\ res.body = [error |-> "invalid_event_name"]
    /\ redisState.connected
    /\ redisState.lastError = null
    /\ DOMAIN db # {}
    /\ pending = <<>>

KeysOf(date) == {<<"keccak:events:", date>>, <<"keccak:sessions:", date>>}

\* C19: every key in the store carries the TTL of 120 days; a stored ingest
\* sets it on the event counter map of its day, and on the Session Set when it
\* adds a session id; an ingest writes only to the keys of the UTC date that
\* was current when storeEvent was called; no key is ever deleted
C19_KeysCarryTTL ==
    /\ [](\A key \in DOMAIN db : db[key].ttl = 120 * 24 * 60 * 60)
    /\ [][/\ DOMAIN db \subseteq DOMAIN db'
          /\ \A r \in Reqs : \A body \in Bodies :
                (PostEvents(r, body) /\ reqs'[r].pc = "exec") =>
                    LET tx == pending'[Len(pending')]
                    IN  /\ tx.date = toISODate(now)
                        /\ \A i \in 1..Len(tx.cmds) : tx.cmds[i].key \in KeysOf(toISODate(now))
          /\ db' # db =>
                LET tx == Head(pending)
                IN  /\ \A key \in DOMAIN db' :
                          (key \notin DOMAIN db \/ db'[key] # db[key]) => key \in KeysOf(tx.date)
                    /\ <<"keccak:events:", tx.date>> \in DOMAIN db'
                    /\ isValidSessionId(tx.sessionId) =>
                          <<"keccak:sessions:", tx.date>> \in DOMAIN db'
        ]_vars

\* C19's case: an ingest called before UTC midnight and applied after it wrote
\* the keys of the day of the call, which carry their TTL
C19_Witness ==
    /\ lastTx # NoTx
    /\ ticks = 1
    /\ lastTx.date # toISODate(now)
    /\ KeysOf(lastTx.date) \subseteq DOMAIN db
    /\ \A key \in KeysOf(lastTx.date) : db[key].ttl = 10368000

\* C20: whenever the health state reports connected true, lastError is null, so
\* no /api/health response reports redis.connected true with an error
C20_ConnectedHasNoError ==
    /\ redisState.connected => redisState.lastError = null
    /\ (res.status = 200 /\ "redis" \in DOMAIN res.body /\ res.body.redis.connected)
          => res.body.redis.lastError = null

====
